---- MODULE Spec2Model ----
(***************************************************************************)
(* mocks-to-msw: the Mock Dispatcher (src/index.ts, and its loader-mode    *)
(* variant) and the Mock-Map Generator (src/generate-mocks.ts).            *)
(*                                                                         *)
(* Strings are sequences of atoms.  An atom is a run of characters that no *)
(* string operation of the program splits: "/", ":", ".json", "GET",       *)
(* "api", ...  Concatenation is \o, and the string operations (replace,    *)
(* endsWith, split, URL parsing) are computed on the atoms.                *)
(***************************************************************************)
EXTENDS Integers, Sequences, FiniteSets, Bags, TLC

VARIABLES
  options,    \* CreateMockHandlerOptions: [mode, source (mocks or loader), debug, origin]
  handlers,   \* what was handed to http.<verb>(url, getMock): a set of handler records
  calls,      \* the invocations of getMock, in the order they began
  console,    \* console.info / console.error lines, a bag, each tagged with its emitter
  pc,         \* generate-mocks main(): the statement it is at
  argv,       \* generate-mocks: the command line and the platform
  disk,       \* generate-mocks: the file system it runs on
  mocksOut,   \* generate-mocks: the entries scanDirectory returned
  proc        \* generate-mocks: the process (exit code, stdout, stderr)

vars == <<options, handlers, calls, console, pc, argv, disk, mocksOut, proc>>
dispatcherVars == <<options, handlers, calls, console>>
generatorVars == <<pc, argv, disk, mocksOut, proc>>

----------------------------------------------------------------------------
(* Bounds *)

MaxHandlers == 2
MaxCalls == 2

----------------------------------------------------------------------------
(* Strings *)

StartsWith(s, p) == Len(s) >= Len(p) /\ SubSeq(s, 1, Len(p)) = p

EndsWith(s, p) == Len(s) >= Len(p) /\ SubSeq(s, Len(s) - Len(p) + 1, Len(s)) = p

\* The start of the first occurrence of sub in s, 0 when there is none.
\* An empty sub occurs at 1, as in JavaScript.
IndexOf(s, sub) ==
  LET hits == {i \in 1..(Len(s) - Len(sub) + 1) : SubSeq(s, i, i + Len(sub) - 1) = sub}
  IN IF hits = {} THEN 0 ELSE CHOOSE i \in hits : \A j \in hits : i <= j

\* String.prototype.replace with a string pattern: the first occurrence only.
ReplaceFirst(s, sub, rep) ==
  LET i == IndexOf(s, sub)
  IN IF i = 0 THEN s
     ELSE SubSeq(s, 1, i - 1) \o rep \o SubSeq(s, i + Len(sub), Len(s))

\* s split at every atom in seps: always at least one piece, pieces may be empty.
RECURSIVE SplitOn(_, _)
SplitOn(s, seps) ==
  LET cut == {i \in 1..Len(s) : s[i] \in seps}
  IN IF cut = {} THEN <<s>>
     ELSE LET i == CHOOSE k \in cut : \A j \in cut : k <= j
          IN <<SubSeq(s, 1, i - 1)>> \o SplitOn(SubSeq(s, i + 1, Len(s)), seps)

\* pieces joined with sep between them.
RECURSIVE JoinWith(_, _)
JoinWith(pieces, sep) ==
  IF pieces = <<>> THEN <<>>
  ELSE IF Len(pieces) = 1 THEN pieces[1]
  ELSE pieces[1] \o <<sep>> \o JoinWith(Tail(pieces), sep)

----------------------------------------------------------------------------
(* new URL(pathname, origin).href, for the special scheme https *)

Failure == [ok |-> FALSE]

Lower(a) ==
  CASE a = "HTTPS" -> "https"
    [] a = "HOST" -> "host"
    [] OTHER -> a

SchemeAtoms == {"https", "HTTPS"}

DefaultPort == "443"

\* The path percent-encode set: a space is written %20.
PercentEncode(seg) == [i \in 1..Len(seg) |-> IF seg[i] = " " THEN "%20" ELSE seg[i]]

\* Leading and trailing spaces are stripped from the input.
RECURSIVE Trim(_)
Trim(s) ==
  IF s # <<>> /\ s[1] = " " THEN Trim(Tail(s))
  ELSE IF s # <<>> /\ s[Len(s)] = " " THEN Trim(SubSeq(s, 1, Len(s) - 1))
  ELSE s

RECURSIVE SkipSlashes(_)
SkipSlashes(s) == IF s # <<>> /\ s[1] = "/" THEN SkipSlashes(Tail(s)) ELSE s

\* The path state: the segments of `segs` pushed on `acc` one by one; ".." pops,
\* "." pushes nothing, and either of them in last place leaves an empty segment.
RECURSIVE PathState(_, _)
PathState(acc, segs) ==
  IF segs = <<>> THEN acc
  ELSE LET seg == segs[1]
           last == Len(segs) = 1
           popped == IF acc = <<>> THEN acc ELSE SubSeq(acc, 1, Len(acc) - 1)
           next == CASE seg = <<"..">> -> IF last THEN Append(popped, <<>>) ELSE popped
                     [] seg = <<".">> -> IF last THEN Append(acc, <<>>) ELSE acc
                     [] OTHER -> Append(acc, PercentEncode(seg))
       IN PathState(next, Tail(segs))

\* The segments of a path that is empty or starts with "/".
PathSegments(p) == IF p = <<>> THEN <<<<>>>> ELSE SplitOn(Tail(p), {"/"})

\* host [":" port] [path], what follows the slashes after the scheme.
ParseAuthority(scheme, s) ==
  IF s = <<>> \/ s[1] \in {"/", ":", " "} THEN Failure
  ELSE LET host == Lower(s[1])
           rest == Tail(s)
           hasPort == rest # <<>> /\ rest[1] = ":"
           port == IF hasPort /\ Len(rest) >= 2 THEN rest[2] ELSE ""
           path == IF hasPort THEN SubSeq(rest, 3, Len(rest)) ELSE rest
       IN IF hasPort /\ port \notin {"443", "8080"} THEN Failure
          ELSE IF path # <<>> /\ path[1] # "/" THEN Failure
          ELSE [ok |-> TRUE, scheme |-> scheme, host |-> host,
                port |-> IF port = DefaultPort THEN "" ELSE port,
                path |-> PathState(<<>>, PathSegments(path))]

HasScheme(s) == Len(s) >= 2 /\ s[1] \in SchemeAtoms /\ s[2] = ":"

\* An absolute URL string: a string with no scheme is no URL.
ParseAbsolute(input) ==
  LET s == Trim(input)
  IN IF ~HasScheme(s) THEN Failure
     ELSE ParseAuthority(Lower(s[1]), SkipSlashes(SubSeq(s, 3, Len(s))))

\* The URL parser with a base: new URL(input, base).
ParseURL(input, base) ==
  LET b == ParseAbsolute(base)
      s == Trim(input)
  IN IF ~b.ok THEN Failure
     ELSE IF HasScheme(s) THEN ParseAbsolute(s)
     ELSE IF s = <<>> THEN b
     ELSE IF Len(s) >= 2 /\ s[1] = "/" /\ s[2] = "/"
       THEN ParseAuthority(b.scheme, SkipSlashes(s))
     ELSE IF s[1] = "/" THEN [b EXCEPT !.path = PathState(<<>>, PathSegments(s))]
     ELSE [b EXCEPT !.path = PathState(SubSeq(b.path, 1, Len(b.path) - 1),
                                       SplitOn(s, {"/"}))]

RECURSIVE SerializePath(_)
SerializePath(segs) ==
  IF segs = <<>> THEN <<>> ELSE <<"/">> \o segs[1] \o SerializePath(Tail(segs))

\* The href getter: the URL serializer.
Href(u) ==
  <<u.scheme, ":", "/", "/", u.host>>
    \o (IF u.port = "" THEN <<>> ELSE <<":", u.port>>)
    \o SerializePath(u.path)

----------------------------------------------------------------------------
(* The Mock Dispatcher: createMockHandler *)

Methods == {"GET", "POST", "PUT", "DELETE"}

\* The verbs of the loader-mode dispatcher: mock.get and mock.post only.
LoaderMethods == {"GET", "POST"}

Undefined == [type |-> "undefined"]

\* HttpResponse.json(body)
HttpResponseJson(body) == [type |-> "json", body |-> body]

\* A key built without the verb of the registration.
mockPathOfGet(pathname, method) == pathname \o <<"/", "GET">>

\* `${pathname}/${method}`
mockPath(pathname, method) == pathname \o <<"/", method>>

\* Promise.resolve({ default: content }) and Promise.reject(error); a content is
\* a sequence of atoms, as a string is.
Fulfilled(content) == [state |-> "fulfilled", value |-> [default |-> content]]
Rejected == [state |-> "rejected", value |-> [default |-> <<"error">>]]

\* What a fixture source answers for a key, up to the await:
\* the expression threw, or it gave something to await.
Threw == [threw |-> TRUE, state |-> "rejected", data |-> <<"error">>]
Awaitable(state, data) == [threw |-> FALSE, state |-> state, data |-> data]

\* mocks[mockPath].then((res) => res.default): a key the record does not hold reads
\* undefined, and undefined.then throws a TypeError inside the try block.
mocksLookup(mocks, key) ==
  IF key \notin DOMAIN mocks THEN Threw
  ELSE LET p == mocks[key]
       IN IF p.state = "fulfilled" THEN Awaitable("fulfilled", p.value.default)
          ELSE Awaitable("rejected", <<"error">>)

\* loader(`${pathname}/${method}`): the loader returns content, returns a promise
\* of content, or throws (require of a file that is not there).
loaderCall(loader, key) ==
  IF key \notin DOMAIN loader THEN Threw
  ELSE LET r == loader[key]
       IN CASE r.kind = "throw" -> Threw
            [] r.kind = "return" -> Awaitable("fulfilled", r.value)
            [] r.kind = "resolve" -> Awaitable("fulfilled", r.value)
            [] OTHER -> Awaitable("rejected", <<"error">>)

\* The expression getMock awaits, by the mode of the dispatcher.
fixtureRequest(opts, key) ==
  IF opts.mode = "mocks" THEN mocksLookup(opts.source, key)
  ELSE loaderCall(opts.source, key)

\* The modifiers a caller passes: (json) => ({ ...json, data: "modified" }),
\* (data) => data, and one that throws.  "none" is the omitted argument.
Modifiers == {"none", "tag", "identity", "throws"}

applyModifier(modifier, data) ==
  CASE modifier = "tag" -> [threw |-> FALSE, value |-> <<"modified">> \o data]
    [] modifier = "identity" -> [threw |-> FALSE, value |-> data]
    [] OTHER -> [threw |-> TRUE, value |-> <<"error">>]

InfoLine(h) ==
  [level |-> "info", text |-> "Mock file was loaded", method |-> h.method,
   pathname |-> h.pathname]

ErrorLine(h) ==
  [level |-> "error", text |-> "Mock file was not found", method |-> h.method,
   pathname |-> h.pathname]

InvalidUrlLine(pathname) ==
  [level |-> "error", text |-> "Invalid URL", method |-> "", pathname |-> pathname]

\* A try block that answers with the fixture and never calls the modifier.
tryWithoutModifier(h, debug, data) ==
  [threw |-> FALSE, lines |-> IF debug THEN <<InfoLine(h)>> ELSE <<>>,
   modifierArgs |-> <<>>, response |-> HttpResponseJson(data)]

\* The try block after the await gave `data`.
tryAfterAwait(h, debug, data) ==
  LET info == IF debug THEN <<InfoLine(h)>> ELSE <<>>
  IN IF h.modifier # "none"
     THEN LET m == applyModifier(h.modifier, data)
          IN [threw |-> m.threw, lines |-> info, modifierArgs |-> <<data>>,
              response |-> IF m.threw THEN Undefined ELSE HttpResponseJson(m.value)]
     ELSE [threw |-> FALSE, lines |-> info, modifierArgs |-> <<>>,
           response |-> HttpResponseJson(data)]

\* The try block left by an exception before `data` was there.
tryFailed == [threw |-> TRUE, lines |-> <<>>, modifierArgs |-> <<>>, response |-> Undefined]

\* A catch block that throws the error on.
catchAndRethrow(h, debug, attempt) ==
  [threw |-> TRUE, lines |-> attempt.lines, modifierArgs |-> attempt.modifierArgs,
   response |-> Undefined]

\* catch (error) { if (debug) console.error(...) }: the function returns undefined.
catchBlock(h, debug, attempt) ==
  [threw |-> FALSE,
   lines |-> attempt.lines \o (IF debug THEN <<ErrorLine(h)>> ELSE <<>>),
   modifierArgs |-> attempt.modifierArgs,
   response |-> Undefined]

\* try { ... } catch { ... } of getMock.
getMockOutcome(h, debug, attempt) ==
  IF attempt.threw THEN catchBlock(h, debug, attempt) ELSE attempt

\* A `data` kept outside the closure: every continuation reads what the invocation
\* that began last asked for.
awaitedShared(opts, cs, i) == fixtureRequest(opts, cs[Len(cs)].requested)

\* What the continuation of invocation i finds in `data`: what its own awaited
\* expression settled to.
awaited(opts, cs, i) == fixtureRequest(opts, cs[i].requested)

\* A getMock that stores the body it answered with in place of the fixture.
optionsWithCachedBody(opts, key, outcome) ==
  IF outcome.response.type = "json" /\ key \in DOMAIN opts.source
  THEN [opts EXCEPT !.source[key] =
          IF opts.mode = "mocks" THEN Fulfilled(outcome.response.body)
          ELSE [kind |-> "return", value |-> outcome.response.body]]
  ELSE opts

\* getMock assigns nothing in the options it closed over.
optionsAfterGetMock(opts, key, outcome) == opts

\* A url that never looks at the origin.
urlOfPathname(origin, pathname, debug) == [target |-> pathname, lines |-> <<>>]

\* A url whose fallback reports the error with debug off too.
urlAlwaysReporting(origin, pathname, debug) ==
  IF origin # <<>>
  THEN LET u == ParseURL(pathname, origin)
       IN IF u.ok THEN [target |-> Href(u), lines |-> <<>>]
          ELSE [target |-> pathname, lines |-> <<InvalidUrlLine(pathname)>>]
  ELSE [target |-> pathname, lines |-> <<>>]

\* The immediately invoked function that computes `url`.
url(origin, pathname, debug) ==
  IF origin # <<>>
  THEN LET u == ParseURL(pathname, origin)
       IN IF u.ok THEN [target |-> Href(u), lines |-> <<>>]
          ELSE [target |-> pathname,
                lines |-> IF debug THEN <<InvalidUrlLine(pathname)>> ELSE <<>>]
  ELSE [target |-> pathname, lines |-> <<>>]

\* console.info / console.error, each line tagged with who wrote it.
RECURSIVE Emit(_, _, _, _)
Emit(con, src, id, lines) ==
  IF lines = <<>> THEN con
  ELSE Emit(con (+) SetToBag({[src |-> src, id |-> id, line |-> lines[1]]}),
            src, id, Tail(lines))

\* mock.<verb>(pathname, modifier) = mocksRequest(METHOD, pathname, modifier):
\* the handler is built and handed to http.<verb>(url, getMock).
Register(method, pathname, modifier) ==
  LET u == url(options.origin, pathname, options.debug)
      h == [method |-> method, pathname |-> pathname, modifier |-> modifier,
            url |-> u.target]
  IN /\ Cardinality(handlers) < MaxHandlers
     /\ options.mode = "loader" => method \in LoaderMethods
     /\ \A g \in handlers :
          ~(g.method = method /\ g.pathname = pathname /\ g.modifier = modifier)
     /\ handlers' = handlers \cup {h}
     /\ console' = Emit(console, "register", 0, u.lines)
     /\ UNCHANGED <<options, calls, generatorVars>>

\* A matched request: getMock runs up to its await.  When the awaited expression
\* itself throws, the catch block runs at once and the invocation is over.
Begin(h) ==
  LET key == mockPath(h.pathname, h.method)
      r == fixtureRequest(options, key)
      i == Len(calls) + 1
      out == getMockOutcome(h, options.debug, tryFailed)
  IN /\ h \in handlers
     /\ Len(calls) < MaxCalls
     /\ IF r.threw
        THEN /\ calls' = Append(calls, [handler |-> h, requested |-> key, pc |-> "done",
                                        settled |-> "threw", data |-> <<"error">>,
                                        modifierArgs |-> out.modifierArgs,
                                        response |-> out.response, escaped |-> out.threw])
             /\ console' = Emit(console, "call", i, out.lines)
             /\ options' = optionsAfterGetMock(options, key, out)
        ELSE /\ calls' = Append(calls, [handler |-> h, requested |-> key, pc |-> "await",
                                        settled |-> "pending", data |-> <<"error">>,
                                        modifierArgs |-> <<>>,
                                        response |-> Undefined, escaped |-> FALSE])
             /\ UNCHANGED <<console, options>>
     /\ UNCHANGED <<handlers, generatorVars>>

\* The awaited expression of invocation i has settled and getMock runs to its end.
Resume(i) ==
  /\ i \in 1..Len(calls)
  /\ calls[i].pc = "await"
  /\ LET c == calls[i]
         a == awaited(options, calls, i)
         attempt == IF a.state = "fulfilled"
                    THEN tryAfterAwait(c.handler, options.debug, a.data)
                    ELSE tryFailed
         out == getMockOutcome(c.handler, options.debug, attempt)
     IN /\ calls' = [calls EXCEPT ![i] =
                       [c EXCEPT !.pc = "done", !.settled = a.state, !.data = a.data,
                                 !.modifierArgs = out.modifierArgs,
                                 !.response = out.response, !.escaped = out.threw]]
        /\ console' = Emit(console, "call", i, out.lines)
        /\ options' = optionsAfterGetMock(options, c.requested, out)
  /\ UNCHANGED <<handlers, generatorVars>>

----------------------------------------------------------------------------
(* The inputs of the dispatcher *)

api == <<"/", "api">>
usr == <<"/", "u">>
apiGET == <<"/", "api", "/", "GET">>

\* A mocks record: five fixtures, one of which fails to load.
MockImports ==
  (<<"/", "api", "/", "GET">> :> Fulfilled(<<"api-GET">>))
    @@ (<<"/", "api", "/", "POST">> :> Fulfilled(<<"api-POST">>))
    @@ (<<"/", "api", "/", "PUT">> :> Rejected)
    @@ (<<"/", "u", "/", "DELETE">> :> Fulfilled(<<"u-DELETE">>))
    @@ (<<"/", "api", "/", "GET", "/", "GET">> :> Fulfilled(<<"api-GET-GET">>))

\* A loader over the same fixtures: synchronous for some keys, asynchronous for
\* others; every other key throws.
LoaderBehaviour ==
  (<<"/", "api", "/", "GET">> :> [kind |-> "return", value |-> <<"api-GET">>])
    @@ (<<"/", "api", "/", "POST">> :> [kind |-> "resolve", value |-> <<"api-POST">>])
    @@ (<<"/", "u", "/", "POST">> :> [kind |-> "reject", value |-> <<"error">>])
    @@ (<<"/", "api", "/", "GET", "/", "GET">> :> [kind |-> "return", value |-> <<"api-GET-GET">>])

ExampleOrigin == <<"https", ":", "/", "/", "host">>

\* The registrations a caller makes: <<method, pathname, modifier>>.
Registrations ==
  { <<"GET", api, "none">>, <<"GET", api, "tag">>, <<"GET", api, "throws">>,
    <<"POST", api, "identity">>, <<"PUT", api, "none">>, <<"DELETE", api, "tag">>,
    <<"DELETE", usr, "none">>, <<"POST", usr, "tag">>, <<"GET", apiGET, "none">> }

\* The origins a caller configures: the documented form, forms the URL parser
\* rewrites, and strings that are no absolute URL.  <<>> is an origin left out.
Origins ==
  { <<>>,
    ExampleOrigin,
    <<"https", ":", "/", "/", "host", ":", "8080">>,
    <<"https", ":", "/", "/", "host", "/">>,
    <<"https", ":", "/", "/", "host", "/", "v1">>,
    <<"https", ":", "/", "/", "host", "/", "v1", "/">>,
    <<"https", ":", "/", "/", "host", ":", "443">>,
    <<"HTTPS", ":", "/", "/", "HOST">>,
    <<"host">>,
    <<"https", ":", "/", "/">>,
    <<"/", "v1">> }

\* The paths a caller registers, beside the plain ones: a path parameter, a
\* trailing slash, a missing leading slash, dot segments, a space, two leading
\* slashes, the empty path.
UrlPaths ==
  { api,
    <<"/", "api", "/", "test">>,
    <<"/", "api", "/", ":", "id">>,
    <<"/", "api", "/">>,
    <<"api">>,
    <<"/", "api", "/", "..", "/", "u">>,
    <<"/", "a", " ", "b">>,
    <<"/", "/", "h2", "/", "api">>,
    <<>> }

OptionsOf(mode, debug, origin) ==
  [mode |-> mode, debug |-> debug, origin |-> origin,
   source |-> IF mode = "mocks" THEN MockImports ELSE LoaderBehaviour]

GeneratorIdle ==
  /\ pc = "idle"
  /\ argv = <<>>
  /\ disk = <<>>
  /\ mocksOut = <<>>
  /\ proc = <<>>

\* A dispatcher with no origin; UrlInit below has the origins.
Init ==
  /\ \E mode \in {"mocks", "loader"}, debug \in BOOLEAN :
       options = OptionsOf(mode, debug, <<>>)
  /\ handlers = {}
  /\ calls = <<>>
  /\ console = EmptyBag
  /\ GeneratorIdle

Next ==
  \/ \E r \in Registrations : Register(r[1], r[2], r[3])
  \/ \E h \in handlers : Begin(h)
  \/ \E i \in 1..MaxCalls : Resume(i)

Spec == Init /\ [][Next]_vars

UrlInit ==
  /\ \E mode \in {"mocks", "loader"}, debug \in BOOLEAN, origin \in Origins :
       options = OptionsOf(mode, debug, origin)
  /\ handlers = {}
  /\ calls = <<>>
  /\ console = EmptyBag
  /\ GeneratorIdle

UrlNext == \E m \in Methods, p \in UrlPaths : Register(m, p, "none")

\* Registration alone, as when the handlers are built at module load, over the
\* origins and paths that exercise the construction of the URL.
UrlSpec == UrlInit /\ [][UrlNext]_vars

\* The event loop runs every continuation whose awaited promise has settled.
FairSpec == Spec /\ \A i \in 1..MaxCalls : WF_vars(Resume(i))

----------------------------------------------------------------------------
(* node:path, on paths relative to the working directory *)

\* The separators the platform reads: win32 reads both, posix the slash only.
Separators(sep) == IF sep = "\\" THEN {"/", "\\"} ELSE {"/"}

\* Normalization of a list of segments: empty and "." segments go, ".." takes
\* the segment before it away.
RECURSIVE NormalizeSegments(_, _)
NormalizeSegments(acc, segs) ==
  IF segs = <<>> THEN acc
  ELSE LET seg == segs[1]
           next == CASE seg = <<>> \/ seg = <<".">> -> acc
                     [] seg = <<"..">> ->
                          IF acc # <<>> /\ acc[Len(acc)] # <<"..">>
                          THEN SubSeq(acc, 1, Len(acc) - 1)
                          ELSE Append(acc, seg)
                     [] OTHER -> Append(acc, seg)
       IN NormalizeSegments(next, Tail(segs))

\* The working directory of the process.
Cwd == << <<"home">>, <<"proj">> >>

\* path.resolve(p): the segments of the absolute path.
pathResolve(p, sep) == NormalizeSegments(Cwd, SplitOn(p, Separators(sep)))

\* path.join(a, b)
pathJoin(a, b, sep) ==
  LET segs == NormalizeSegments(<<>>, SplitOn(a \o <<sep>> \o b, Separators(sep)))
  IN IF segs = <<>> THEN <<".">> ELSE JoinWith(segs, sep)

\* path.dirname(p), for a path that does not end in a separator.
pathDirname(p, sep) ==
  LET cut == {i \in 1..Len(p) : p[i] \in Separators(sep)}
  IN IF cut = {} THEN <<".">>
     ELSE SubSeq(p, 1, (CHOOSE i \in cut : \A j \in cut : j <= i) - 1)

\* path.relative(from, to)
pathRelative(from, to, sep) ==
  LET f == pathResolve(from, sep)
      t == pathResolve(to, sep)
      same == {n \in 0..Len(f) : n <= Len(t) /\ SubSeq(f, 1, n) = SubSeq(t, 1, n)}
      c == CHOOSE n \in same : \A m \in same : m <= n
      ups == [i \in 1..(Len(f) - c) |-> <<"..">>]
  IN JoinWith(ups \o SubSeq(t, c + 1, Len(t)), sep)

----------------------------------------------------------------------------
(* The Mock-Map Generator: generate-mocks *)

\* result[key] = value on an object: a key it holds keeps its place.
objectSet(obj, key, value) ==
  IF \E i \in 1..Len(obj) : obj[i].key = key
  THEN [i \in 1..Len(obj) |-> IF obj[i].key = key THEN [key |-> key, value |-> value]
                              ELSE obj[i]]
  ELSE Append(obj, [key |-> key, value |-> value])

\* Object.assign(target, source)
RECURSIVE objectAssign(_, _)
objectAssign(target, source) ==
  IF source = <<>> THEN target
  ELSE objectAssign(objectSet(target, source[1].key, source[1].value), Tail(source))

\* entry.name.replace(".json", "")
methodOf(name) == ReplaceFirst(name, <<".json">>, <<>>)

\* dirPath.replace(inputFolder, "").replace(/^[\/\\]/, "")
apiPathOf(dirPath, inputFolder) ==
  LET cut == ReplaceFirst(dirPath, inputFolder, <<>>)
  IN IF cut # <<>> /\ cut[1] \in {"/", "\\"} THEN Tail(cut) ELSE cut

\* An import path left with the separators of the platform.
importPathNative(outputFile, fullPath, sep) ==
  <<".", "/">> \o pathRelative(pathDirname(outputFile, sep), fullPath, sep)

\* "./" + path.relative(path.dirname(outputFile), fullPath).replace(/\\/g, "/")
normalizedImportPath(outputFile, fullPath, sep) ==
  LET outputDir == pathDirname(outputFile, sep)
      relativeImportPath == pathRelative(outputDir, fullPath, sep)
  IN <<".", "/">> \o [i \in 1..Len(relativeImportPath) |->
                       IF relativeImportPath[i] = "\\" THEN "/" ELSE relativeImportPath[i]]

\* scanDirectory(dir, basePath, inputFolder, outputFile); `entries` is what
\* fs.readdirSync(dir, { withFileTypes: true }) returns.
RECURSIVE scanDirectory(_, _, _, _, _, _)
scanDirectory(entries, dir, basePath, inputFolder, outputFile, sep) ==
  LET visit[k \in 0..Len(entries)] ==
        IF k = 0 THEN <<>>
        ELSE LET entry == entries[k]
                 result == visit[k - 1]
                 fullPath == pathJoin(dir, entry.name, sep)
                 relativePath == pathJoin(basePath, entry.name, sep)
             IN IF entry.kind = "dir"
                THEN objectAssign(result,
                       scanDirectory(entry.entries, fullPath, relativePath,
                                     inputFolder, outputFile, sep))
                ELSE IF entry.kind = "file" /\ EndsWith(entry.name, <<".json">>)
                THEN objectSet(result,
                       <<"/">> \o apiPathOf(pathDirname(relativePath, sep), inputFolder)
                         \o <<"/">> \o methodOf(entry.name),
                       [import |-> normalizedImportPath(outputFile, fullPath, sep)])
                ELSE result
  IN visit[Len(entries)]

\* A folder check that finds every folder.
folderAlwaysExists(d, folder) == TRUE

\* fs.existsSync(folder)
folderExists(d, folder) == d.kind # "missing"

\* The directories there are: those above the working directory and the input
\* folder, those there from the start, and those made since.
Prefixes(segs) == {SubSeq(segs, 1, n) : n \in 0..Len(segs)}

existingDirs(d, a) ==
  Prefixes(Cwd) \cup d.dirs \cup d.created
    \cup (IF d.kind = "dir" THEN Prefixes(pathResolve(a.folder, a.sep)) ELSE {})

Running == [exitCode |-> -1, stdout |-> <<>>, stderr |-> <<>>]

\* process.exit(code) after console.error(line)
exitWith(p, line, code) == [p EXCEPT !.exitCode = code, !.stderr = Append(@, line)]

\* parseArgs(): both flags are needed.
ParseArgs ==
  /\ pc = "parseArgs"
  /\ IF argv.folder = <<>> \/ argv.output = <<>>
     THEN /\ proc' = exitWith(proc, "Usage", 1)
          /\ pc' = "exited"
     ELSE /\ pc' = "checkFolder"
          /\ UNCHANGED proc
  /\ UNCHANGED <<argv, disk, mocksOut, dispatcherVars>>

\* if (!fs.existsSync(folder)) { console.error(...); process.exit(1) }
CheckFolder ==
  /\ pc = "checkFolder"
  /\ IF ~folderExists(disk, argv.folder)
     THEN /\ proc' = exitWith(proc, "does not exist", 1)
          /\ pc' = "exited"
     ELSE /\ pc' = "mkdir"
          /\ UNCHANGED proc
  /\ UNCHANGED <<argv, disk, mocksOut, dispatcherVars>>

\* if (!fs.existsSync(outputDir)) fs.mkdirSync(outputDir, { recursive: true })
MakeOutputDir ==
  /\ pc = "mkdir"
  /\ LET outputDir == pathResolve(pathDirname(argv.output, argv.sep), argv.sep)
     IN disk' = IF outputDir \in existingDirs(disk, argv) THEN disk
                ELSE [disk EXCEPT !.created = @ \cup Prefixes(outputDir)]
  /\ pc' = "scan"
  /\ UNCHANGED <<argv, mocksOut, proc, dispatcherVars>>

\* const mocks = scanDirectory(folder, "", folder, output): readdirSync throws on
\* what is no directory, and the uncaught exception ends the process.
Scan ==
  /\ pc = "scan"
  /\ IF disk.kind = "dir"
     THEN /\ mocksOut' = scanDirectory(disk.tree, argv.folder, <<>>, argv.folder,
                                       argv.output, argv.sep)
          /\ pc' = "write"
          /\ UNCHANGED proc
     ELSE /\ proc' = exitWith(proc, "uncaught", 1)
          /\ pc' = "exited"
          /\ UNCHANGED mocksOut
  /\ UNCHANGED <<argv, disk, dispatcherVars>>

\* fs.writeFileSync(output, outputContent); console.log(...): one line per entry,
\* in the order of the object, then the process ends.
Write ==
  /\ pc = "write"
  /\ disk' = [disk EXCEPT !.written =
                Append(@, [file |-> pathResolve(argv.output, argv.sep),
                           entries |-> mocksOut])]
  /\ proc' = [proc EXCEPT !.exitCode = 0, !.stdout = Append(@, "created successfully")]
  /\ pc' = "done"
  /\ UNCHANGED <<argv, mocksOut, dispatcherVars>>

----------------------------------------------------------------------------
(* The inputs of the generator *)

File(name) == [name |-> name, kind |-> "file", entries |-> <<>>]
Dir(name, entries) == [name |-> name, kind |-> "dir", entries |-> entries]

GETjson == <<"GET", ".json">>
POSTjson == <<"POST", ".json">>
PUTjson == <<"PUT", ".json">>
DELETEjson == <<"DELETE", ".json">>

\* What the input folder may hold, in the order readdir lists it; a run has any
\* part of it.
Candidates ==
  << Dir(<<"a">>, <<Dir(<<"b">>, <<File(GETjson)>>), File(PUTjson)>>),
     Dir(<<"a", "b">>, <<File(DELETEjson), File(GETjson)>>),
     Dir(<<"user">>, <<File(GETjson), File(POSTjson), File(<<"README">>)>>),
     File(POSTjson),
     Dir(<<"v1">>, <<Dir(<<"user">>, <<File(GETjson)>>), File(<<"schema", ".json">>)>>) >>

RECURSIVE Pick(_, _)
Pick(seq, keep) ==
  IF seq = <<>> THEN <<>>
  ELSE (IF Len(seq) \in keep THEN Pick(SubSeq(seq, 1, Len(seq) - 1), keep) \o <<seq[Len(seq)]>>
        ELSE Pick(SubSeq(seq, 1, Len(seq) - 1), keep))

Trees == {Pick(Candidates, keep) : keep \in SUBSET (1..Len(Candidates))}

\* --folder: "fixtures", "./fixtures", "a", "user", "mocks/v1", or left out.
Folders ==
  { <<"fixtures">>, <<".", "/", "fixtures">>, <<"a">>, <<"user">>,
    <<"mocks", "/", "v1">>, <<>> }

\* --output: "src/generated/mocks.ts", "mocks.ts", "fixtures/mocks.ts", or left out.
Outputs ==
  { <<"src", "/", "generated", "/", "mocks.ts">>, <<"mocks.ts">>,
    <<"fixtures", "/", "mocks.ts">>, <<>> }

DispatcherIdle ==
  /\ options = OptionsOf("mocks", FALSE, <<>>)
  /\ handlers = {}
  /\ calls = <<>>
  /\ console = EmptyBag

GenInit ==
  /\ pc = "parseArgs"
  /\ \E folder \in Folders, output \in Outputs, sep \in {"/", "\\"} :
       argv = [folder |-> folder, output |-> output, sep |-> sep]
  /\ \E kind \in {"dir", "missing", "file"}, tree \in Trees, outDirThere \in BOOLEAN :
       /\ kind # "dir" => tree = <<>>
       /\ disk = [kind |-> kind, tree |-> tree,
                  dirs |-> IF outDirThere /\ argv.output # <<>>
                           THEN Prefixes(pathResolve(pathDirname(argv.output, argv.sep),
                                                     argv.sep))
                           ELSE {},
                  created |-> {}, written |-> <<>>]
  /\ mocksOut = <<>>
  /\ proc = Running
  /\ DispatcherIdle

GenNext == ParseArgs \/ CheckFolder \/ MakeOutputDir \/ Scan \/ Write

\* One run of the generate-mocks command.
GenSpec == GenInit /\ [][GenNext]_vars

----------------------------------------------------------------------------
(* What the claims speak of, stated from the inputs alone *)

\* The Fixture Key of a registration.
KeyOf(h) == h.pathname \o <<"/">> \o <<h.method>>

\* The fixture source holds the key.
Present(key) == key \in DOMAIN options.source

\* The fixture source holds the key and gives content for it.
Loads(key) ==
  /\ Present(key)
  /\ IF options.mode = "mocks" THEN options.source[key].state = "fulfilled"
     ELSE options.source[key].kind \in {"return", "resolve"}

\* The content stored under a key that loads.
StoredContent(key) ==
  IF options.mode = "mocks" THEN options.source[key].value.default
  ELSE options.source[key].value

\* What the caller's modifier makes of a content.
ModifierReturns(modifier) == modifier \in {"tag", "identity"}
Modified(modifier, content) ==
  IF modifier = "tag" THEN <<"modified">> \o content ELSE content

Done(i) == i \in 1..Len(calls) /\ calls[i].pc = "done"

\* The console lines invocation i wrote, with the number of times each was written.
LinesOf(i) == {e \in BagToSet(console) : e.src = "call" /\ e.id = i}

----------------------------------------------------------------------------
(* C1: for every verb M and path P whose key "P/M" is in the fixture source, the  *)
(* handler registered for (M, P) asks the source for exactly the key "P/M" (the    *)
(* loader is called with it) and, when that fixture loads, resolves the content    *)
(* stored under "P/M", never the content of another path or verb.                  *)
C1_ExactFixture ==
  \A i \in 1..Len(calls) :
    LET c == calls[i]
        key == KeyOf(c.handler)
    IN Present(key) =>
         /\ c.requested = key
         /\ (c.pc = "done" /\ Loads(key)) =>
              /\ c.settled = "fulfilled"
              /\ c.data = StoredContent(key)
              /\ \A k \in DOMAIN options.source :
                   (k # key /\ Loads(k)) => c.data # StoredContent(k)

\* A POST fixture was resolved while the GET fixture of the same path is registered too.
C1_Witness ==
  \E i \in 1..Len(calls) :
    /\ Done(i)
    /\ calls[i].handler.method = "POST"
    /\ calls[i].handler.pathname = api
    /\ calls[i].data = <<"api-POST">>
    /\ \E g \in handlers : g.method = "GET" /\ g.pathname = api

\* The key is absent, or its deferred handle rejects, or the loader throws.
Misses(key) == ~Loads(key)

(* C2: an invocation whose key is absent from the mapping (or whose handle rejects, *)
(* or whose loader throws) produces no response, lets no exception escape, and      *)
(* writes exactly one error diagnostic naming its method and path if debug is true,  *)
(* and nothing if debug is false.                                                    *)
C2_SoftMiss ==
  \A i \in 1..Len(calls) :
    LET c == calls[i]
        expected == [src |-> "call", id |-> i,
                     line |-> [level |-> "error", text |-> "Mock file was not found",
                               method |-> c.handler.method,
                               pathname |-> c.handler.pathname]]
    IN (Misses(KeyOf(c.handler)) /\ c.pc = "done") =>
         /\ c.response = Undefined
         /\ ~c.escaped
         /\ IF options.debug
            THEN LinesOf(i) = {expected} /\ CopiesIn(expected, console) = 1
            ELSE LinesOf(i) = {}

\* With debug on, a miss of each kind has been served: an absent key and a failed load.
C2_Witness ==
  /\ options.debug
  /\ \E i, j \in 1..Len(calls) :
       /\ Done(i) /\ Done(j)
       /\ ~Present(KeyOf(calls[i].handler))
       /\ Present(KeyOf(calls[j].handler)) /\ Misses(KeyOf(calls[j].handler))
       /\ LinesOf(i) # {} /\ LinesOf(j) # {}

(* C3: when the fixture of an invocation resolves, a modifier given at registration *)
(* is called exactly once, with the resolved content, and the response body is what *)
(* it returns; with no modifier the body is the content unchanged.                  *)
C3_ModifierApplied ==
  \A i \in 1..Len(calls) :
    LET c == calls[i]
        m == c.handler.modifier
        key == KeyOf(c.handler)
    IN (c.pc = "done" /\ Loads(key)) =>
         IF m = "none"
         THEN c.modifierArgs = <<>> /\ c.response = HttpResponseJson(StoredContent(key))
         ELSE /\ c.modifierArgs = <<StoredContent(key)>>
              /\ ModifierReturns(m) =>
                   c.response = HttpResponseJson(Modified(m, StoredContent(key)))
              /\ c.response # Undefined => ModifierReturns(m)

\* A modifier that changes the content was applied, and a fixture went out unmodified.
C3_Witness ==
  \E i, j \in 1..Len(calls) :
    /\ Done(i) /\ Done(j)
    /\ calls[i].handler.modifier = "tag"
    /\ calls[i].response = HttpResponseJson(<<"modified", "api-GET">>)
    /\ calls[j].handler.modifier = "none"
    /\ calls[j].response.type = "json"

\* Two finished invocations of one handler gave the same thing.
SameResults ==
  \A i, j \in 1..Len(calls) :
    (Done(i) /\ Done(j) /\ calls[i].handler = calls[j].handler) =>
      /\ calls[i].response = calls[j].response
      /\ calls[i].data = calls[j].data
      /\ calls[i].settled = calls[j].settled

(* C6: invoking the same handler twice gives the same resolved content both times:  *)
(* no step changes the options, the fixture mapping or the fixture contents, and    *)
(* nothing is cached between invocations.                                           *)
C6_Idempotent == [][options' = options]_vars /\ []SameResults

\* One handler with a modifier that changes the content was invoked twice.
C6_Witness ==
  /\ Len(calls) = 2
  /\ Done(1) /\ Done(2)
  /\ calls[1].handler = calls[2].handler
  /\ calls[1].handler.modifier = "tag"
  /\ calls[1].response.type = "json"

\* What an invocation of handler h must end with, whatever else is in flight.
OwnResponse(h) ==
  IF Misses(KeyOf(h)) THEN Undefined
  ELSE IF h.modifier = "none" THEN HttpResponseJson(StoredContent(KeyOf(h)))
  ELSE IF ModifierReturns(h.modifier)
    THEN HttpResponseJson(Modified(h.modifier, StoredContent(KeyOf(h))))
  ELSE Undefined

OwnResults == \A i \in 1..Len(calls) : Done(i) => calls[i].response = OwnResponse(calls[i].handler)

\* A step leaves every other invocation as it was, and a finished one for good.
Undisturbed ==
  \A j \in 1..Len(calls) :
    \/ calls'[j] = calls[j]
    \/ /\ calls[j].pc = "await"
       /\ \A k \in 1..Len(calls) : k # j => calls'[k] = calls[k]

(* C10: with any number of invocations suspended at their await at once, resumed   *)
(* in any order, each ends with the response of its own key and modifier or its own *)
(* soft miss, none changes another's result, and each one that began ends.          *)
C10_Independent ==
  /\ []OwnResults
  /\ [][Undisturbed]_vars
  /\ \A i \in 1..MaxCalls : (i <= Len(calls)) ~> Done(i)

\* Two invocations on different keys were in flight together, and the second one
\* finished first.
C10_Witness ==
  /\ Len(calls) = 2
  /\ calls[1].pc = "await"
  /\ Done(2)
  /\ calls[2].settled = "fulfilled"
  /\ calls[1].requested # calls[2].requested

----------------------------------------------------------------------------
(* Origins and paths, told apart by their text alone *)

\* An origin in the form the URL serializer writes one: lower-case scheme and
\* host, no default port, nothing after the authority.
SerializedOrigin(o) ==
  /\ Len(o) \in {5, 7}
  /\ SubSeq(o, 1, 4) = <<"https", ":", "/", "/">>
  /\ o[5] \in {"host", "h2"}
  /\ Len(o) = 7 => (o[6] = ":" /\ o[7] = "8080")

\* A path in the form the URL serializer writes one: one leading slash, no dot
\* segment, nothing the serializer escapes.
NormalizedPath(p) ==
  /\ p # <<>>
  /\ p[1] = "/"
  /\ Len(p) >= 2 => p[2] # "/"
  /\ \A i \in 1..Len(p) : p[i] \notin {".", "..", " "}

\* Strings new URL(pathname, origin) rejects as a base: no scheme, or no host.
MalformedOrigins == { <<"host">>, <<"https", ":", "/", "/">>, <<"/", "v1">> }

\* The original wording of C4: whenever the origin combines with the path, the
\* target is the origin string followed by the path.
C4_OriginThenPath ==
  \A h \in handlers :
    IF options.origin = <<>> THEN h.url = h.pathname
    ELSE options.origin \notin MalformedOrigins => h.url = options.origin \o h.pathname

(* C4 as amended: with an origin that combines with the path, the handler is bound  *)
(* to the absolute URL that resolving the path against the origin gives; that URL is *)
(* the origin string followed by the path when the origin is in serialized form and  *)
(* the path is a normalized absolute path; with no origin the target is the bare     *)
(* path.                                                                             *)
C4_ResolvedTarget ==
  \A h \in handlers :
    IF options.origin = <<>> THEN h.url = h.pathname
    ELSE options.origin \notin MalformedOrigins =>
           /\ StartsWith(h.url, <<"https", ":", "/", "/">>)
           /\ h.url[5] \in {"host", "h2"}
           /\ (SerializedOrigin(options.origin) /\ NormalizedPath(h.pathname)) =>
                h.url = options.origin \o h.pathname

\* The documented origin with a path that has a parameter, and a port kept.
C4_Witness ==
  /\ SerializedOrigin(options.origin)
  /\ Len(options.origin) = 7
  /\ \E h \in handlers :
       /\ h.pathname = <<"/", "api", "/", ":", "id">>
       /\ h.url = <<"https", ":", "/", "/", "host", ":", "8080", "/", "api", "/", ":", "id">>

\* The "Invalid URL" lines written for pathname p.
InvalidUrlLines(p) ==
  CopiesIn([src |-> "register", id |-> 0,
            line |-> [level |-> "error", text |-> "Invalid URL", method |-> "",
                      pathname |-> p]], console)

(* C5: with an origin that cannot be combined with the path into an absolute URL,   *)
(* registration goes through: the handler is registered on the bare path, and each   *)
(* registration writes exactly one error diagnostic if debug is true, none if not.   *)
C5_FallbackToPath ==
  options.origin \in MalformedOrigins =>
    /\ \A h \in handlers : h.url = h.pathname
    /\ \A p \in UrlPaths :
         InvalidUrlLines(p) =
           IF options.debug THEN Cardinality({h \in handlers : h.pathname = p}) ELSE 0
    /\ \A e \in BagToSet(console) : e.line.text = "Invalid URL"

\* Two handlers were registered under a malformed origin with debug on.
C5_Witness ==
  /\ options.origin = <<"host">>
  /\ options.debug
  /\ Cardinality(handlers) = 2
  /\ \E h \in handlers : h.pathname = <<"/", "api", "/", "test">> /\ h.url = h.pathname
  /\ InvalidUrlLines(<<"/", "api", "/", "test">>) >= 1

----------------------------------------------------------------------------
(* The files of the input folder, told from the tree alone *)

\* Every file of a tree, with the names of the directories above it.
RECURSIVE FilesIn(_, _)
FilesIn(entries, dirs) ==
  UNION { IF entries[k].kind = "dir"
          THEN FilesIn(entries[k].entries, Append(dirs, entries[k].name))
          ELSE {[dirs |-> dirs, name |-> entries[k].name]} : k \in 1..Len(entries) }

\* The files named <METHOD>.json.
FixtureFiles ==
  {f \in FilesIn(disk.tree, <<>>) : \E m \in Methods : f.name = <<m, ".json">>}

\* The entries of the file the run wrote.
WrittenEntries == IF disk.written = <<>> THEN <<>> ELSE disk.written[1].entries
WrittenKeys == {WrittenEntries[i].key : i \in 1..Len(WrittenEntries)}

(* C7: for every fixture file <root>/<relativeDir>/<METHOD>.json, at any depth and  *)
(* with any directory names, the generator emits the key "/<relativeDir>/<METHOD>"; *)
(* a root holding only user/GET.json and user/POST.json gives exactly /user/GET and  *)
(* /user/POST.                                                                       *)
C7_KeyPerFixture ==
  pc = "done" =>
    /\ \A f \in FixtureFiles :
         f.dirs # <<>> =>
           <<"/">> \o JoinWith(f.dirs, argv.sep) \o <<"/", f.name[1]>> \in WrittenKeys
    /\ disk.tree = <<Candidates[3]>> =>
         WrittenKeys = {<<"/", "user", "/", "GET">>, <<"/", "user", "/", "POST">>}

(* C8: when the input directory does not exist the run ends with a non-zero exit    *)
(* status and writes no output file: nothing is created, traversed or written,       *)
(* because the check comes first.                                                    *)
C8_MissingFolder ==
  disk.kind = "missing" =>
    /\ disk.created = {}
    /\ disk.written = <<>>
    /\ mocksOut = <<>>
    /\ pc \in {"parseArgs", "checkFolder", "exited"}
    /\ proc.exitCode # 0
    /\ pc = "exited" => proc.exitCode = 1

\* Both flags given, the folder missing and the output directory not there yet:
\* the run has ended on the check.
C8_Witness ==
  /\ disk.kind = "missing"
  /\ pc = "exited"
  /\ proc.stderr = <<"does not exist">>
  /\ pathResolve(pathDirname(argv.output, argv.sep), argv.sep) \notin existingDirs(disk, argv)

\* The file an import path names, read from the directory of the output file.
Denoted(import) ==
  NormalizeSegments(pathResolve(pathDirname(argv.output, argv.sep), argv.sep),
                    SplitOn(import, {"/"}))

\* The place of a file of the tree.
PlaceOf(f) == pathResolve(argv.folder, argv.sep) \o f.dirs \o <<f.name>>

JsonFiles == {f \in FilesIn(disk.tree, <<>>) : EndsWith(f.name, <<".json">>)}

\* Every entry names a fixture file of the tree, from the directory of the output
\* file, with forward slashes; and with no key written twice, every file is named.
ImportsDenoteFiles ==
  /\ \A i \in 1..Len(WrittenEntries) :
       LET import == WrittenEntries[i].value.import
       IN /\ \A k \in 1..Len(import) : import[k] # "\\"
          /\ \E f \in JsonFiles : Denoted(import) = PlaceOf(f)
  /\ Len(WrittenEntries) = Cardinality(JsonFiles) =>
       \A f \in JsonFiles :
         \E i \in 1..Len(WrittenEntries) : Denoted(WrittenEntries[i].value.import) = PlaceOf(f)

\* The original wording of C9: "./" is added only to a path that does not start
\* with "./" or "../" already.
C9_PrefixOnlyIfNeeded ==
  pc = "done" =>
    /\ ImportsDenoteFiles
    /\ \A i \in 1..Len(WrittenEntries) :
         LET import == WrittenEntries[i].value.import
         IN /\ StartsWith(import, <<".", "/">>) \/ StartsWith(import, <<"..", "/">>)
            /\ ~StartsWith(import, <<".", "/", "..">>)

(* C9 as amended: the import path of every entry is the path from the directory of  *)
(* the output file to the fixture file, written with forward slashes, and it always  *)
(* starts with an added "./", also when the relative path starts with "../".         *)
C9_ImportPath ==
  pc = "done" =>
    /\ ImportsDenoteFiles
    /\ \A i \in 1..Len(WrittenEntries) :
         LET import == WrittenEntries[i].value.import
         IN /\ StartsWith(import, <<".", "/">>)
            /\ Len(import) >= 3 /\ import[3] \notin {".", "/"}

\* On win32, a file two directories down was written with an import path that
\* climbs out of the directory of the output file.
C9_Witness ==
  /\ pc = "done"
  /\ argv.sep = "\\"
  /\ \E i \in 1..Len(WrittenEntries) :
       /\ StartsWith(WrittenEntries[i].value.import, <<".", "/", "..", "/", "..", "/">>)
       /\ EndsWith(WrittenEntries[i].value.import, <<"a", "/", "b", "/", "GET", ".json">>)

----------------------------------------------------------------------------
(* The diagnostics of one invocation *)

\* A line of invocation i, as the console holds it.
DiagnosticOf(i, level, text) ==
  [src |-> "call", id |-> i,
   line |-> [level |-> level, text |-> text, method |-> calls[i].handler.method,
             pathname |-> calls[i].handler.pathname]]


(* C11: with debug on, every finished invocation has written exactly one line: the  *)
(* info line "Mock file was loaded" when its fixture content resolved, the error     *)
(* line "Mock file was not found" when fixture resolution failed; none has written   *)
(* both; with debug off none has written anything.                                   *)
C11_OneDiagnostic ==
  \A i \in 1..Len(calls) :
    Done(i) =>
      LET info == DiagnosticOf(i, "info", "Mock file was loaded")
          error == DiagnosticOf(i, "error", "Mock file was not found")
      IN IF ~options.debug THEN LinesOf(i) = {}
         ELSE IF Loads(KeyOf(calls[i].handler))
           THEN LinesOf(i) = {info} /\ CopiesIn(info, console) = 1
           ELSE LinesOf(i) = {error} /\ CopiesIn(error, console) = 1

----------------------------------------------------------------------------
(* The entries of the written mapping against the files of the tree *)

\* The entries whose import names the file f.
EntriesOf(f) ==
  {i \in 1..Len(WrittenEntries) : Denoted(WrittenEntries[i].value.import) = PlaceOf(f)}

(* C12: the written mapping has one entry for each file named <METHOD>.json with    *)
(* METHOD in {GET, POST, PUT, DELETE}, and no entry for any other file, other files  *)
(* ending in .json included.                                                         *)
C12_OnlyMethodFiles ==
  pc = "done" =>
    /\ \A f \in FixtureFiles : Cardinality(EntriesOf(f)) = 1
    /\ \A f \in FilesIn(disk.tree, <<>>) \ FixtureFiles : EntriesOf(f) = {}

(* C13: two distinct fixture files never get the same Fixture Key: no entry the     *)
(* traversal found is overwritten, and the written mapping has as many entries as    *)
(* fixture files were found.                                                         *)
C13_NoSharedKeys ==
  pc = "done" =>
    /\ \A f \in JsonFiles : EntriesOf(f) # {}
    /\ Len(WrittenEntries) = Cardinality(JsonFiles)

====
